---- MODULE Spec2Model ----
(***************************************************************************)
(* Model of restore.py: download date-partitioned ranger audit logs from   *)
(* AWS S3 or Azure blob storage into tmp_logs/<date>/<file>, insert every  *)
(* staged file into Solr with one update request, and remove the staged    *)
(* files in a finally clause.                                              *)
(*                                                                         *)
(* Python strings are sequences of one-character strings, so that split,   *)
(* rstrip, the "in" substring test, strptime and json.loads are computed   *)
(* on characters as the library computes them.  Dates are proleptic        *)
(* Gregorian ordinals (datetime.date.toordinal).                           *)
(***************************************************************************)
EXTENDS Integers, Sequences, FiniteSets, TLC

VARIABLES
    pc,           \* position of main(): kinit, args, download, loop, scan, cleanup, done
    cloud_type,   \* --cloud_type as given on the command line
    days_ago,     \* --days_ago
    listing,      \* what bucket.objects.filter(...) / container_client.list_blobs() yields
    idx,          \* 1-based position of the download loop in listing
    variant,      \* "aws" | "azure" | "none": the download function main() selected
    today,        \* ordinal of datetime.now().date(), the wall clock
    root_exists,  \* whether tmp_logs exists
    dirs,         \* names of the directories under tmp_logs
    files,        \* the files under tmp_logs/<dir>/: records [dir, name, body]
    decisions,    \* history: decisions[i] is what the loop decided for listing[i], and when
    downloaded,   \* history: positions in listing of the objects downloaded, in order
    unscanned,    \* files os.scandir has not yet yielded to upload_to_solr
    cur_dir,      \* directory the inner os.scandir loop is in
    uploads,      \* history: one record per staged file upload_to_solr has read
    inserts,      \* history: the requests.post calls made, in order
    printed,      \* what the except clause of main() has printed
    pending,      \* exception travelling through the finally clause ("none" if none)
    stage_exc,    \* exception raised inside the try body of main() ("none" if none)
    cleanup,      \* "not_run" | "ok" | "raised": what remove_dir did
    exit_code,    \* process exit status once pc = "done" (-1 before)
    fn_in,        \* input of the pure function under check (SpecDate, SpecLoader)
    fn_out        \* <<its result>>, and <<>> before it has been applied

vars == <<pc, cloud_type, days_ago, listing, idx, variant, today, root_exists, dirs,
          files, decisions, downloaded, unscanned, cur_dir, uploads, inserts, printed,
          pending, stage_exc, cleanup, exit_code, fn_in, fn_out>>

(***************************************************************************)
(* Bounds of the model.                                                    *)
(***************************************************************************)
MaxList == 2      \* longest provider listing
MaxDaysAgo == 2   \* largest --days_ago
MaxTicks == 1     \* midnights that may pass during a run
MaxTail == 4      \* characters after the year in the strings given to is_date_str
MaxContent == 4   \* longest file content given to read_file_as_json_list

(***************************************************************************)
(* Characters and strings.                                                 *)
(***************************************************************************)
Digits == {"0", "1", "2", "3", "4", "5", "6", "7", "8", "9"}

NonZeroDigits == Digits \ {"0"}

DigitVal(c) ==
    CASE c = "0" -> 0 [] c = "1" -> 1 [] c = "2" -> 2 [] c = "3" -> 3 [] c = "4" -> 4
      [] c = "5" -> 5 [] c = "6" -> 6 [] c = "7" -> 7 [] c = "8" -> 8 [] c = "9" -> 9

\* s[i] of a Python string, "" past the end (a regex position that cannot match)
At(s, i) == IF i >= 1 /\ i <= Len(s) THEN s[i] ELSE ""

\* sub in s
Contains(s, sub) ==
    \E i \in 1..(Len(s) - Len(sub) + 1) : SubSeq(s, i, i + Len(sub) - 1) = sub

\* s.split(sep) for a one-character separator: the pieces between the separators
Split(s, sep) ==
    LET cuts == {i \in 1..Len(s) : s[i] = sep}
        n == Cardinality(cuts)
        cut(k) == IF k = 0 THEN 0
                  ELSE IF k = n + 1 THEN Len(s) + 1
                  ELSE CHOOSE i \in cuts : Cardinality({j \in cuts : j < i}) = k - 1
    IN  [k \in 1..(n + 1) |-> SubSeq(s, cut(k - 1) + 1, cut(k) - 1)]

\* a variant of rstrip that removes one final newline only
rstrip_one_nl(s) ==
    IF Len(s) > 0 /\ s[Len(s)] = "\n" THEN SubSeq(s, 1, Len(s) - 1) ELSE s

\* s.rstrip("\n")
RECURSIVE rstrip_nl(_)
rstrip_nl(s) ==
    IF Len(s) > 0 /\ s[Len(s)] = "\n" THEN rstrip_nl(SubSeq(s, 1, Len(s) - 1)) ELSE s

\* str.lower() on the letters the command line values are written in
LowerChar(c) ==
    CASE c = "A" -> "a" [] c = "W" -> "w" [] c = "S" -> "s" [] c = "Z" -> "z"
      [] c = "U" -> "u" [] c = "R" -> "r" [] c = "E" -> "e" [] OTHER -> c

Lower(s) == [i \in 1..Len(s) |-> LowerChar(s[i])]

(***************************************************************************)
(* datetime: calendar and strptime(s, "%Y%m%d").                           *)
(***************************************************************************)
IsLeap(y) == (y % 4 = 0) /\ ((y % 100 # 0) \/ (y % 400 = 0))

DaysInMonth(y, m) ==
    IF m = 2 THEN (IF IsLeap(y) THEN 29 ELSE 28)
    ELSE IF m \in {4, 6, 9, 11} THEN 30 ELSE 31

RECURSIVE DaysBeforeMonth(_, _)
DaysBeforeMonth(y, m) ==
    IF m = 1 THEN 0 ELSE DaysBeforeMonth(y, m - 1) + DaysInMonth(y, m - 1)

\* date(y, m, d).toordinal()
ToOrdinal(y, m, d) ==
    LET p == y - 1
    IN  p * 365 + (p \div 4) - (p \div 100) + (p \div 400) + DaysBeforeMonth(y, m) + d

\* %Y is (?P<Y>\d\d\d\d)
YearMatches(s) == \A i \in 1..4 : At(s, i) \in Digits

\* %m is (?P<m>1[0-2]|0[1-9]|[1-9]): whether alternative a matches at position p
MonthAlt(s, p, a) ==
    CASE a = 1 -> At(s, p) = "1" /\ At(s, p + 1) \in {"0", "1", "2"}
      [] a = 2 -> At(s, p) = "0" /\ At(s, p + 1) \in NonZeroDigits
      [] a = 3 -> At(s, p) \in NonZeroDigits

MonthLen(a) == IF a = 3 THEN 1 ELSE 2

\* %d is (?P<d>3[01]|[12]\d|0[1-9]|[1-9]| [1-9])
DayAlt(s, p, b) ==
    CASE b = 1 -> At(s, p) = "3" /\ At(s, p + 1) \in {"0", "1"}
      [] b = 2 -> At(s, p) \in {"1", "2"} /\ At(s, p + 1) \in Digits
      [] b = 3 -> At(s, p) = "0" /\ At(s, p + 1) \in NonZeroDigits
      [] b = 4 -> At(s, p) \in NonZeroDigits
      [] b = 5 -> At(s, p) = " " /\ At(s, p + 1) \in NonZeroDigits

DayLen(b) == IF b = 4 THEN 1 ELSE 2

\* the alternative of %d the regex engine takes at position p: the first that matches,
\* 0 when none does
DayMatch(s, p) ==
    IF DayAlt(s, p, 1) THEN 1
    ELSE IF DayAlt(s, p, 2) THEN 2
    ELSE IF DayAlt(s, p, 3) THEN 3
    ELSE IF DayAlt(s, p, 4) THEN 4
    ELSE IF DayAlt(s, p, 5) THEN 5
    ELSE 0

\* the alternative of %m of format_regex.match(s): the first after which %d matches too
\* (the engine backtracks into %m when %d fails), 0 when the regex does not match
MonthMatch(s) ==
    IF MonthAlt(s, 5, 1) /\ DayMatch(s, 5 + MonthLen(1)) # 0 THEN 1
    ELSE IF MonthAlt(s, 5, 2) /\ DayMatch(s, 5 + MonthLen(2)) # 0 THEN 2
    ELSE IF MonthAlt(s, 5, 3) /\ DayMatch(s, 5 + MonthLen(3)) # 0 THEN 3
    ELSE 0

\* int() of a one- or two-character group; a two-character day may start with a blank
Num2(s, p, len) ==
    IF len = 1 THEN DigitVal(s[p])
    ELSE (IF s[p] = " " THEN 0 ELSE DigitVal(s[p]) * 10) + DigitVal(s[p + 1])

\* datetime.strptime(s, "%Y%m%d").date(): ok = FALSE stands for ValueError
strptime(s) ==
    IF ~YearMatches(s) \/ MonthMatch(s) = 0
    THEN [ok |-> FALSE, ordinal |-> 0]                           \* does not match format
    ELSE LET a == MonthMatch(s)
             dp == 5 + MonthLen(a)
             b == DayMatch(s, dp)
             end == dp + DayLen(b) - 1
             y == DigitVal(s[1]) * 1000 + DigitVal(s[2]) * 100
                    + DigitVal(s[3]) * 10 + DigitVal(s[4])
             m == Num2(s, 5, MonthLen(a))
             d == Num2(s, dp, DayLen(b))
         IN  IF end # Len(s) THEN [ok |-> FALSE, ordinal |-> 0]  \* unconverted data remains
             ELSE IF y < 1 \/ d > DaysInMonth(y, m)
             THEN [ok |-> FALSE, ordinal |-> 0]                  \* year or day out of range
             ELSE [ok |-> TRUE, ordinal |-> ToOrdinal(y, m, d)]

is_date_str(potential_date_str) == strptime(potential_date_str).ok

\* datetime.now() is read at every call
get_days_ago_date(n) == today - n

is_later_date(potential_date_str, n) ==
    IF ~is_date_str(potential_date_str) THEN FALSE
    ELSE LET new_date == strptime(potential_date_str).ordinal
         IN  new_date >= get_days_ago_date(n)

(***************************************************************************)
(* json.loads on one line, for lines written with digits, blanks and other *)
(* characters that start no JSON value ("x").  A JSON value here is an     *)
(* integer 0|[1-9]\d* with optional surrounding whitespace.                *)
(***************************************************************************)
JsonWhitespace == {" ", "\n"}

RECURSIVE SkipWs(_, _)
SkipWs(s, p) == IF At(s, p) \in JsonWhitespace THEN SkipWs(s, p + 1) ELSE p

RECURSIVE SkipDigits(_, _)
SkipDigits(s, p) == IF At(s, p) \in Digits THEN SkipDigits(s, p + 1) ELSE p

RECURSIVE IntOf(_)
IntOf(ds) ==
    IF Len(ds) = 0 THEN 0
    ELSE IntOf(SubSeq(ds, 1, Len(ds) - 1)) * 10 + DigitVal(ds[Len(ds)])

\* json.loads(s): ok = FALSE stands for JSONDecodeError
json_loads(s) ==
    LET b == SkipWs(s, 1)
        e == IF At(s, b) = "0" THEN b + 1
             ELSE IF At(s, b) \in NonZeroDigits THEN SkipDigits(s, b) ELSE b
        f == SkipWs(s, e)
    IN  IF e = b THEN [ok |-> FALSE, value |-> 0]                  \* Expecting value
        ELSE IF f # Len(s) + 1 THEN [ok |-> FALSE, value |-> 0]    \* Extra data
        ELSE [ok |-> TRUE, value |-> IntOf(SubSeq(s, b, e - 1))]

\* file_text.rstrip('\n').split('\n')
json_str_list(file_text) == Split(rstrip_nl(file_text), "\n")

\* read_file_as_json_list: ok = FALSE stands for the JSONDecodeError of the list comprehension
read_file_as_json_list(file_text) ==
    LET lines == json_str_list(file_text)
    IN  IF \E i \in 1..Len(lines) : ~json_loads(lines[i]).ok
        THEN [ok |-> FALSE, records |-> <<>>]
        ELSE [ok |-> TRUE, records |-> [i \in 1..Len(lines) |-> json_loads(lines[i]).value]]

(***************************************************************************)
(* The remote objects a listing is drawn from: [key, body].                *)
(***************************************************************************)
\* ranger/audit/20230108/a: label on the first day of the window of days_ago = 2
ObjInWindow ==
    [key |-> <<"r", "a", "n", "g", "e", "r", "/", "a", "u", "d", "i", "t", "/", "2", "0", "2", "3", "0", "1", "0", "8", "/", "a">>,
     body |-> <<"1", "\n", "0", "\n">>]

\* ranger/audit/20230107/a: label one day before that window
ObjOld ==
    [key |-> <<"r", "a", "n", "g", "e", "r", "/", "a", "u", "d", "i", "t", "/", "2", "0", "2", "3", "0", "1", "0", "7", "/", "a">>,
     body |-> <<"1">>]

\* x/ranger/audit/20230108/a: other prefix, same label and file name as ObjInWindow
ObjSameName ==
    [key |-> <<"x", "/", "r", "a", "n", "g", "e", "r", "/", "a", "u", "d", "i", "t", "/", "2", "0", "2", "3", "0", "1", "0", "8", "/", "a">>,
     body |-> <<"1", "\n", "\n">>]

\* x/20230108/a: outside ranger/audit
ObjNoMarker ==
    [key |-> <<"x", "/", "2", "0", "2", "3", "0", "1", "0", "8", "/", "a">>,
     body |-> <<"1">>]

\* ranger/audit/20230110/: a folder placeholder: empty file name
ObjFolder ==
    [key |-> <<"r", "a", "n", "g", "e", "r", "/", "a", "u", "d", "i", "t", "/", "2", "0", "2", "3", "0", "1", "1", "0", "/">>,
     body |-> <<>>]

\* ranger/audit/20230110/e: a zero-byte log file
ObjEmpty ==
    [key |-> <<"r", "a", "n", "g", "e", "r", "/", "a", "u", "d", "i", "t", "/", "2", "0", "2", "3", "0", "1", "1", "0", "/", "e">>,
     body |-> <<>>]

\* ranger/audit/2023019/b: a 7-character label
ObjShortLabel ==
    [key |-> <<"r", "a", "n", "g", "e", "r", "/", "a", "u", "d", "i", "t", "/", "2", "0", "2", "3", "0", "1", "9", "/", "b">>,
     body |-> <<"1">>]

\* ranger/audit/20230109/c: a log file whose second line is no JSON
ObjMalformed ==
    [key |-> <<"r", "a", "n", "g", "e", "r", "/", "a", "u", "d", "i", "t", "/", "2", "0", "2", "3", "0", "1", "0", "9", "/", "c">>,
     body |-> <<"1", "\n", "x">>]

\* ranger/audit/tests/a: a folder that is no date
ObjTests ==
    [key |-> <<"r", "a", "n", "g", "e", "r", "/", "a", "u", "d", "i", "t", "/", "t", "e", "s", "t", "s", "/", "a">>,
     body |-> <<"1">>]

Objects ==
    {ObjInWindow, ObjOld, ObjSameName, ObjNoMarker, ObjFolder,
     ObjEmpty, ObjShortLabel, ObjMalformed, ObjTests}

\* a bucket or container holds one object per key
Listings ==
    {l \in UNION {[1..k -> Objects] : k \in 0..MaxList} :
        \A i, j \in 1..Len(l) : i # j => l[i].key # l[j].key}

CloudTypes == {<<"A", "W", "S">>, <<"A", "z", "u", "r", "e">>, <<"g", "c", "p">>}

\* HTTP status of the Solr response; 0 stands for requests.post raising ConnectionError
Statuses == {0, 200, 304, 500}

Today0 == ToOrdinal(2023, 1, 10)

(***************************************************************************)
(* main(): exceptions.                                                     *)
(***************************************************************************)
\* the classes "except Exception" catches; SystemExit (argparse) is a BaseException
ExceptionSubclasses ==
    {"ValueError", "IndexError", "ProviderError", "OSError", "JSONDecodeError",
     "HTTPError", "ConnectionError"}

except_catches(e) == e \in ExceptionSubclasses

\* an exception e leaves the try body: the except clause prints it if it catches it,
\* and control reaches the finally clause
Raise(e) ==
    /\ stage_exc' = e
    /\ printed' = IF except_catches(e) THEN Append(printed, e) ELSE printed
    /\ pending' = IF except_catches(e) THEN "none" ELSE e
    /\ pc' = "cleanup"

\* a variant of the end of main() in which an exception of remove_dir is swallowed
main_exit_swallowing(cleanup_exc, pend) ==
    IF pend = "SystemExit" THEN [uncaught |-> pend, code |-> 2]
    ELSE IF pend # "none" THEN [uncaught |-> pend, code |-> 1]
    ELSE [uncaught |-> "none", code |-> 0]

\* how the interpreter ends once the finally clause is over: an exception of remove_dir
\* replaces a pending one and is uncaught (status 1); a pending SystemExit of argparse
\* gives 2; nothing pending gives 0
main_exit(cleanup_exc, pend) ==
    IF cleanup_exc # "none" THEN [uncaught |-> cleanup_exc, code |-> 1]
    ELSE IF pend = "SystemExit" THEN [uncaught |-> pend, code |-> 2]
    ELSE IF pend # "none" THEN [uncaught |-> pend, code |-> 1]
    ELSE [uncaught |-> "none", code |-> 0]

(***************************************************************************)
(* download_s3_folder / download_blob_folder.                              *)
(***************************************************************************)
Marker == <<"r", "a", "n", "g", "e", "r", "/", "a", "u", "d", "i", "t">>

\* obj.key.split("/")[-2]
potential_date_str(key) == LET segs == Split(key, "/") IN segs[Len(segs) - 1]

\* obj.key.split("/")[-1]
filename(key) == LET segs == Split(key, "/") IN segs[Len(segs)]

\* the three "continue" tests of the loop body: TRUE when the object is downloaded
selects(key, n) ==
    /\ Contains(key, Marker)
    /\ \E d \in {potential_date_str(key)} : is_date_str(d) /\ is_later_date(d, n)
    /\ filename(key) # <<>>

\* open(..., "wb") / download_file: the file at tmp_logs/<d>/<name> is replaced
WriteFile(fs, d, name, body) ==
    {f \in fs : ~(f.dir = d /\ f.name = name)} \cup {[dir |-> d, name |-> name, body |-> body]}

Init ==
    /\ pc = "kinit"
    /\ cloud_type \in CloudTypes
    /\ days_ago \in 0..MaxDaysAgo
    /\ listing \in Listings
    /\ idx = 1
    /\ variant = "none"
    /\ today = Today0
    /\ root_exists = FALSE
    /\ dirs = {} /\ files = {}
    /\ decisions = <<>> /\ downloaded = <<>>
    /\ unscanned = {} /\ cur_dir = <<>>
    /\ uploads = <<>> /\ inserts = <<>> /\ printed = <<>>
    /\ pending = "none" /\ stage_exc = "none" /\ cleanup = "not_run" /\ exit_code = -1
    /\ fn_in = <<>> /\ fn_out = <<>>

fsVars == <<root_exists, dirs, files>>
inputVars == <<cloud_type, days_ago, listing, fn_in, fn_out>>
loopVars == <<idx, variant, decisions, downloaded>>
scanVars == <<unscanned, cur_dir, uploads, inserts>>
excVars == <<printed, pending, stage_exc>>
endVars == <<cleanup, exit_code>>

\* kinit: stderr is redirected to stdout, so communicate() returns stderr = None and
\* the RuntimeError is never raised
Kinit ==
    /\ pc = "kinit"
    /\ pc' = "args"
    /\ UNCHANGED <<inputVars, loopVars, today, fsVars, scanVars, excVars, endVars>>

\* get_user_inputs(): argparse exits (SystemExit) on a missing or ill-typed argument
GetUserInputs ==
    /\ pc = "args"
    /\ \/ pc' = "download" /\ UNCHANGED excVars
       \/ Raise("SystemExit")
    /\ UNCHANGED <<inputVars, loopVars, today, fsVars, scanVars, endVars>>

\* the branch on CLOUD_TYPE.lower() and the client set-up before the loop
StartDownload ==
    /\ pc = "download"
    /\ LET ct == Lower(cloud_type)
       IN  \/ /\ ct = <<"a", "w", "s">>
              /\ variant' = "aws" /\ pc' = "loop" /\ UNCHANGED excVars
           \/ /\ ct = <<"a", "z", "u", "r", "e">>
              /\ variant' = "azure" /\ pc' = "loop" /\ UNCHANGED excVars
           \/ /\ ct \in {<<"a", "w", "s">>, <<"a", "z", "u", "r", "e">>}
              /\ Raise("ProviderError") /\ UNCHANGED variant
           \/ /\ ct \notin {<<"a", "w", "s">>, <<"a", "z", "u", "r", "e">>}
              /\ Raise("ValueError") /\ UNCHANGED variant
    /\ UNCHANGED <<inputVars, idx, decisions, downloaded, today, fsVars, scanVars, endVars>>

\* one iteration of "for obj in ..." / "for blob in blob_list"
LoopStep ==
    /\ pc = "loop"
    /\ idx <= Len(listing)
    /\ \E obj \in {listing[idx]} : \E d \in {potential_date_str(obj.key)} :
       \E name \in {filename(obj.key)} : \E take \in {selects(obj.key, days_ago)} :
           /\ decisions' = Append(decisions, [accepted |-> take, now |-> today])
           /\ idx' = idx + 1
           /\ \/ /\ ~take
                 /\ UNCHANGED <<fsVars, downloaded, excVars, pc>>
              \/ /\ take
                 /\ root_exists' = TRUE
                 /\ dirs' = dirs \cup {d}
                 /\ files' = WriteFile(files, d, name, obj.body)
                 /\ downloaded' = Append(downloaded, idx)
                 /\ UNCHANGED <<excVars, pc>>
              \/ /\ take
                 /\ root_exists' = TRUE
                 /\ dirs' = dirs \cup {d}
                 /\ files' = IF variant = "azure" THEN WriteFile(files, d, name, <<>>)
                             ELSE files
                 /\ Raise("ProviderError")
                 /\ UNCHANGED downloaded
    /\ UNCHANGED <<inputVars, variant, today, scanVars, endVars>>

(***************************************************************************)
(* upload_to_solr                                                          *)
(***************************************************************************)
\* a variant of raise_for_status that raises for client errors only
raise_for_status_4xx(status) == status >= 400 /\ status < 500

\* Response.raise_for_status(): HTTPError for 4xx and 5xx
raise_for_status(status) == status >= 400 /\ status < 600

\* the download function has returned; upload_to_solr starts its scan, or returns at
\* once when tmp_logs does not exist
UploadStart ==
    /\ pc = "loop"
    /\ idx > Len(listing)
    /\ IF root_exists
       THEN pc' = "scan" /\ unscanned' = files
       ELSE pc' = "cleanup" /\ UNCHANGED unscanned
    /\ UNCHANGED <<inputVars, loopVars, today, fsVars, cur_dir, uploads, inserts,
                   excVars, endVars>>

\* one iteration of the inner loop: the next file os.scandir yields, directory by directory
UploadStep ==
    /\ pc = "scan"
    /\ \E f \in unscanned :
        /\ f.dir = cur_dir \/ ~\E g \in unscanned : g.dir = cur_dir
        /\ cur_dir' = f.dir
        /\ unscanned' = unscanned \ {f}
        /\ \E r \in {read_file_as_json_list(f.body)} :
               \/ /\ ~r.ok
                  /\ uploads' = Append(uploads, [dir |-> f.dir, name |-> f.name,
                                                body |-> f.body, parsed |-> FALSE])
                  /\ Raise("JSONDecodeError")
                  /\ UNCHANGED inserts
               \/ /\ r.ok
                  /\ uploads' = Append(uploads, [dir |-> f.dir, name |-> f.name,
                                                body |-> f.body, parsed |-> TRUE])
                  /\ \E status \in Statuses :
                      /\ inserts' = Append(inserts, [dir |-> f.dir, name |-> f.name,
                                                    json |-> r.records, status |-> status])
                      /\ IF status = 0 THEN Raise("ConnectionError")
                         ELSE IF raise_for_status(status) THEN Raise("HTTPError")
                         ELSE UNCHANGED <<excVars, pc>>
    /\ UNCHANGED <<inputVars, loopVars, today, fsVars, endVars>>

\* both scandir loops are exhausted: the try body ends without an exception
UploadEnd ==
    /\ pc = "scan"
    /\ unscanned = {}
    /\ pc' = "cleanup"
    /\ UNCHANGED <<inputVars, loopVars, today, fsVars, scanVars, excVars, endVars>>

(***************************************************************************)
(* remove_dir, called from the finally clause of main()                    *)
(***************************************************************************)
\* a variant of remove_dir without the os.rmdir call
remove_dir_files_only(ds, fs) ==
    [files |-> {f \in fs : f.dir \notin ds}, dirs |-> ds]

\* what is left when remove_dir returns: every file of every directory under tmp_logs
\* is removed, then the directory
remove_dir(ds, fs) ==
    LET left == {f \in fs : f.dir \notin ds}
    IN  [files |-> left, dirs |-> {d \in ds : \E f \in left : f.dir = d}]

RemoveDir ==
    /\ pc = "cleanup"
    /\ \/ /\ ~root_exists
          /\ cleanup' = "ok"
          /\ UNCHANGED <<fsVars>>
       \/ /\ root_exists
          /\ cleanup' = "ok"
          /\ files' = remove_dir(dirs, files).files
          /\ dirs' = remove_dir(dirs, files).dirs
          /\ UNCHANGED root_exists
       \/ /\ root_exists
          /\ cleanup' = "raised"
          /\ \E gone \in SUBSET dirs :
                \/ /\ gone = {}              \* os.scandir(local_dir) raises OSError
                   /\ UNCHANGED <<dirs, files>>
                \/ \E d \in dirs \ gone :   \* os.remove or os.rmdir raises OSError in d
                     \E lost \in SUBSET {f \in files : f.dir = d} :
                        /\ dirs' = dirs \ gone
                        /\ files' = {f \in files : f.dir \notin gone} \ lost
          /\ UNCHANGED root_exists
    /\ LET e == main_exit(IF cleanup' = "raised" THEN "OSError" ELSE "none", pending)
       IN  /\ exit_code' = e.code
           /\ pending' = e.uncaught
    /\ pc' = "done"
    /\ UNCHANGED <<inputVars, loopVars, today, scanVars, printed, stage_exc>>

\* midnight passes between two iterations of the download loop, the only place where
\* the clock is read
Tick ==
    /\ pc = "loop"
    /\ idx > 1 /\ idx <= Len(listing)
    /\ today < Today0 + MaxTicks
    /\ today' = today + 1
    /\ UNCHANGED <<pc, inputVars, loopVars, fsVars, scanVars, excVars, endVars>>

Next ==
    \/ Kinit
    \/ GetUserInputs
    \/ StartDownload
    \/ LoopStep
    \/ UploadStart
    \/ UploadStep
    \/ UploadEnd
    \/ RemoveDir
    \/ Tick

Spec == Init /\ [][Next]_vars

(***************************************************************************)
(* Specifications of the two pure functions, applied to every input of a   *)
(* bounded set.  The variables of main() stay at their values before the   *)
(* run.                                                                    *)
(***************************************************************************)
Strings(alphabet, n) == UNION {[1..k -> alphabet] : k \in 0..n}

NotRunning ==
    /\ pc = "fn"
    /\ cloud_type = <<>> /\ days_ago = 0 /\ listing = <<>> /\ idx = 1
    /\ variant = "none" /\ today = ToOrdinal(2023, 1, 10)
    /\ root_exists = FALSE /\ dirs = {} /\ files = {}
    /\ decisions = <<>> /\ downloaded = <<>> /\ unscanned = {} /\ cur_dir = <<>>
    /\ uploads = <<>> /\ inserts = <<>> /\ printed = <<>>
    /\ pending = "none" /\ stage_exc = "none" /\ cleanup = "not_run" /\ exit_code = -1

mainVars == <<pc, cloud_type, days_ago, listing, idx, variant, today, root_exists, dirs,
              files, decisions, downloaded, unscanned, cur_dir, uploads, inserts,
              printed, pending, stage_exc, cleanup, exit_code>>

DateAlphabet == {"0", "1", "2", "3", "9", " ", "x"}

DateYears == {<<"2", "0", "2", "3">>, <<"2", "0", "2", "4">>, <<"2", "0", "2">>}

DateStrings == {y \o tail : y \in DateYears, tail \in Strings(DateAlphabet, MaxTail)}

InitDate ==
    /\ NotRunning
    /\ fn_in \in DateStrings
    /\ fn_out = <<>>

ApplyIsDateStr ==
    /\ fn_out = <<>>
    /\ fn_out' = <<is_date_str(fn_in)>>
    /\ UNCHANGED <<mainVars, fn_in>>

NextDate == ApplyIsDateStr

SpecDate == InitDate /\ [][NextDate]_vars

LoaderAlphabet == {"0", "1", "x", " ", "\n"}

InitLoader ==
    /\ NotRunning
    /\ fn_in \in Strings(LoaderAlphabet, MaxContent)
    /\ fn_out = <<>>

ApplyReadFile ==
    /\ fn_out = <<>>
    /\ fn_out' = <<read_file_as_json_list(fn_in)>>
    /\ UNCHANGED <<mainVars, fn_in>>

NextLoader == ApplyReadFile

SpecLoader == InitLoader /\ [][NextLoader]_vars

(***************************************************************************)
(* Properties.                                                             *)
(***************************************************************************)
\* the exceptions the download and upload stages raise
StageErrors == {"ValueError", "ProviderError", "JSONDecodeError", "HTTPError", "ConnectionError"}

\* the download loop is over and the download function returns normally
FetchEnded == pc = "loop" /\ idx > Len(listing)

\* the positions in listing of the objects the loop has accepted so far, in listing order
AcceptedKeys ==
    SelectSeq([i \in 1..Len(decisions) |-> i], LAMBDA i : decisions[i].accepted)

\* C1: an error of the download or upload stage is caught and printed by main(), and
\* remove_dir has run when the run terminates; when remove_dir returns normally no file
\* and no directory is left under tmp_logs.
C1_CaughtThenCleaned ==
    /\ pc = "done" => cleanup # "not_run"
    /\ (pc \in {"cleanup", "done"} /\ stage_exc \in StageErrors) => printed = <<stage_exc>>
    /\ (pc = "cleanup" /\ stage_exc \in StageErrors) => pending = "none"
    /\ cleanup = "ok" => (dirs = {} /\ files = {})

C1_Witness ==
    /\ pc = "done" /\ cleanup = "ok"
    /\ stage_exc = "HTTPError"
    /\ Len(downloaded) = 2 /\ Len(inserts) = 2

\* C2: an exception of remove_dir is not swallowed: the run ends with it uncaught
\* (exit status 1), whether or not a stage had failed and been caught before.
C2_CleanupErrorPropagates ==
    (pc = "done" /\ cleanup = "raised") => (pending = "OSError" /\ exit_code = 1)

C2_Witness ==
    /\ pc = "done" /\ cleanup = "raised"
    /\ stage_exc = "JSONDecodeError" /\ printed = <<"JSONDecodeError">>

\* an 8-digit string that is a calendar date in YYYYMMDD order
IsDateLabel(s) ==
    /\ Len(s) = 8
    /\ \A i \in 1..8 : s[i] \in Digits
    /\ LET y == DigitVal(s[1]) * 1000 + DigitVal(s[2]) * 100 + DigitVal(s[3]) * 10 + DigitVal(s[4])
           m == DigitVal(s[5]) * 10 + DigitVal(s[6])
           d == DigitVal(s[7]) * 10 + DigitVal(s[8])
       IN  y >= 1 /\ m \in 1..12 /\ d >= 1 /\ d <= DaysInMonth(y, m)

\* days from 0001-01-01 to the date an 8-digit label names: 365 for every earlier year,
\* one more for every earlier leap year, then the days of the year
DaysBeforeYear(y) == 365 * (y - 1) + Cardinality({k \in 1..(y - 1) : IsLeap(k)})

LabelDay(s) ==
    LET y == DigitVal(s[1]) * 1000 + DigitVal(s[2]) * 100 + DigitVal(s[3]) * 10 + DigitVal(s[4])
        m == DigitVal(s[5]) * 10 + DigitVal(s[6])
        d == DigitVal(s[7]) * 10 + DigitVal(s[8])
    IN  DaysBeforeYear(y) + DaysBeforeMonth(y, m) + d

\* the selection rule as C3 states it, for a check made on day now
ClaimAccepts(key, n, now) ==
    /\ Contains(key, Marker)
    /\ LET segs == Split(key, "/")
       IN  /\ Len(segs) >= 2
           /\ IsDateLabel(segs[Len(segs) - 1])
           /\ LabelDay(segs[Len(segs) - 1]) >= now - n
           /\ segs[Len(segs)] # <<>>

\* C3: an object is accepted iff its key contains "ranger/audit", its second-to-last
\* segment is a valid 8-digit date label not older than (today - days_ago), and its
\* last segment is non-empty; exactly the accepted objects are downloaded, in order.
C3_Selection ==
    /\ \A i \in DOMAIN decisions :
          decisions[i].accepted <=> ClaimAccepts(listing[i].key, days_ago, decisions[i].now)
    /\ stage_exc = "none" => downloaded = AcceptedKeys

\* C4: without errors, the files under tmp_logs when the download stage ends are as
\* many as the accepted objects, and the upload stage makes one insert call for each.
C4_OneFilePerObject ==
    /\ FetchEnded => Cardinality(files) = Len(AcceptedKeys)
    /\ (pc = "done" /\ stage_exc = "none") => Len(inserts) = Len(AcceptedKeys)

\* C5: a zero-byte staged file gives zero records and exactly one insert call whose
\* body is the empty array; it does not make the run fail.
C5_EmptyFileInserted ==
    \A i \in DOMAIN uploads :
        uploads[i].body = <<>> =>
            /\ uploads[i].parsed
            /\ Cardinality({j \in DOMAIN inserts :
                              /\ inserts[j].dir = uploads[i].dir
                              /\ inserts[j].name = uploads[i].name
                              /\ inserts[j].json = <<>>}) = 1

\* the text without its final run of newlines: its longest prefix not ending in "\n"
StripAllNewlines(c) ==
    LET ends == {k \in 0..Len(c) : k = 0 \/ c[k] # "\n"}
        last == CHOOSE k \in ends : \A j \in ends : j <= k
    IN  SubSeq(c, 1, last)

\* the text without one final newline, when it has one
StripOneNewline(c) ==
    IF Len(c) > 0 /\ c[Len(c)] = "\n" THEN SubSeq(c, 1, Len(c) - 1) ELSE c

\* the lines of a text, read from the left up to each newline
RECURSIVE LinesOf(_)
LinesOf(text) ==
    IF \E i \in 1..Len(text) : text[i] = "\n"
    THEN LET i == CHOOSE k \in 1..Len(text) :
                      text[k] = "\n" /\ \A j \in 1..(k - 1) : text[j] # "\n"
         IN  <<SubSeq(text, 1, i - 1)>> \o LinesOf(SubSeq(text, i + 1, Len(text)))
    ELSE <<text>>

\* every line parsed as one JSON value, failing as a whole when one line fails
ParsedLines(text) ==
    LET lines == LinesOf(text)
    IN  IF \A i \in 1..Len(lines) : json_loads(lines[i]).ok
        THEN [ok |-> TRUE, records |-> [i \in 1..Len(lines) |-> json_loads(lines[i]).value]]
        ELSE [ok |-> FALSE, records |-> <<>>]

\* C6 as stated: read_file_as_json_list removes at most one final newline, splits the
\* rest on newlines and parses every line.
C6_SingleNewline ==
    fn_out # <<>> => fn_out[1] = ParsedLines(StripOneNewline(fn_in))

\* C6 as amended: read_file_as_json_list removes every trailing newline, splits the rest
\* on newlines and parses every line, blank ones included; two records each followed by
\* a newline give exactly two records.
C6_AllTrailingNewlines ==
    fn_out # <<>> =>
        /\ fn_out[1] = ParsedLines(StripAllNewlines(fn_in))
        /\ fn_in = <<"1", "\n", "0", "\n">> => fn_out[1] = [ok |-> TRUE, records |-> <<1, 0>>]

C6_Witness ==
    /\ fn_in = <<"1", "\n", "\n">>
    /\ fn_out = <<[ok |-> TRUE, records |-> <<1>>]>>

\* C7: when the download or upload stage failed, the exit status of the run differs
\* from the exit status 0 of a successful run.
C7_ExitShowsFailure ==
    (pc = "done" /\ stage_exc \in StageErrors) => exit_code # 0

\* C8: within one run two objects with the same partition label get the same in-window
\* decision.
C8_OneThreshold ==
    \A i, j \in DOMAIN decisions :
        LET a == listing[i].key
            b == listing[j].key
        IN  (/\ Contains(a, Marker) /\ Contains(b, Marker)
             /\ potential_date_str(a) = potential_date_str(b)
             /\ filename(a) # <<>> /\ filename(b) # <<>>)
            => decisions[i].accepted = decisions[j].accepted

\* C9: is_date_str(s) is true iff s is exactly 8 digits forming a valid calendar date.
C9_EightDigits ==
    fn_out # <<>> => (fn_out[1] <=> IsDateLabel(fn_in))

\* a file the upload stage could not parse, or an index response that was an error
ParseFailed == \E i \in DOMAIN uploads : ~uploads[i].parsed

ErrorResponse == \E j \in DOMAIN inserts : inserts[j].status >= 400

NonSuccessResponse ==
    \E j \in DOMAIN inserts : inserts[j].status # 0 /\ ~(inserts[j].status \in 200..299)

NoInsertForUnparsed ==
    \A i \in DOMAIN uploads :
        ~uploads[i].parsed =>
            \A j \in DOMAIN inserts :
                ~(inserts[j].dir = uploads[i].dir /\ inserts[j].name = uploads[i].name)

InsertsOnlyGrow ==
    /\ Len(inserts') >= Len(inserts)
    /\ SubSeq(inserts', 1, Len(inserts)) = inserts

InsertsAfterFetch == inserts' # inserts => (pc = "scan" /\ idx > Len(listing))

====
